---- MODULE Spec2Model ----
(***************************************************************************)
(* Download queue and session lifecycle of GrabZilla.                      *)
(*                                                                         *)
(* The model follows src/src/ui/main_window.py (VideoDownloaderFrame):     *)
(* the UI thread runs the event handlers, one worker thread per queued     *)
(* item runs _download_video, one monitor thread per session runs          *)
(* _monitor_downloads, one resolver thread per added item runs             *)
(* _fetch_metadata.  Threads reach the UI thread through two pending       *)
(* queues: wx.PostEvent(self, ...) queues on the frame, wx.CallAfter(...)  *)
(* queues on the application object.  Each queue is FIFO; which of the two *)
(* is served first depends on which object got a pending event first, so   *)
(* the program fixes no order between an event and a callback.             *)
(*                                                                         *)
(* Positions are 1-based here (Python index i is position i + 1).          *)
(***************************************************************************)
EXTENDS Integers, Sequences, FiniteSets, TLC

\* ------------------------------------------------------------- bounds
MaxItems == 2        \* Spec: most items ever added to the queue
MaxSessions == 1     \* Spec: most accepted on_download_videos calls
RepeatItems == 1     \* SpecRepeat: most items ever added to the queue
RepeatSessions == 2  \* SpecRepeat: most accepted on_download_videos calls
OfflineItems == 1    \* SpecOffline: most items ever added to the queue
OfflineSessions == 3 \* SpecOffline: most accepted on_download_videos calls
QueueAdds == 3       \* SpecQueue: most items ever added to the queue
MaxLines == 1        \* most output lines read from one executor process
MaxBatch == 2        \* most lines in one Add Video / Import URLs input
MetaItems == 2       \* SpecMeta: most items ever added to the queue
MetaSessions == 1    \* SpecMeta: most accepted on_download_videos calls
MaxQueue == 3        \* SpecReorder: most items in the queue at the start
IndexItems == 2      \* SpecIndex: most items ever added to the queue
IndexSessions == 1   \* SpecIndex: most accepted download_videos calls
ResolveAdds == 3     \* SpecResolve: most items ever added to the queue
LiveItems == 2       \* SpecLive: most items ever added to the queue
LiveSessions == 1    \* SpecLive: most accepted on_download_videos calls
OptionItems == 2     \* SpecOptions: most items ever added to the queue
OptionSessions == 1  \* SpecOptions: most accepted on_download_videos calls
ThumbItems == 2      \* SpecThumb: most items ever added to the queue
ProgressItems == 1   \* most items of a session whose output lines are followed
ProgressSessions == 1 \* most sessions while output lines are followed
ProgressLines == 2   \* most output lines read from one process, there
AlignAdds == 3       \* most items added while the rows are compared with the items
MaxName == 3         \* most characters of a file name given to clean_filename

\* ------------------------------------------------------------- inputs
Urls == {"u1", "u2"}

\* What the Metadata Provider answers as 'title' for a URL (a sequence of
\* characters); the answer for one URL is the same each time it is asked.
\* The titles of different URLs differ and sanitize to the same file name.
ProviderTitle(u) == IF u = "u1" THEN <<"a", "/">> ELSE <<"a", "?">>

\* What the provider answers as 'duration' (seconds) for a URL.
ProviderDuration(u) == IF u = "u1" THEN 185 ELSE 3600

\* Lines an executor process can write: one with a percentage, one without.
Lines == {"50.0%", "Merging"}

\* Output lines of the executor as the progress parser sees them: a
\* percentage, a smaller one, a percentage above one hundred inside other
\* text, points without a digit before the sign, the text printed when the
\* size is unknown, and a line without the sign.
ProgressOutputs == {"50.0%", "20.0%", "x250%", "..%", "N/A%", "Merging"}

NoTitle == <<>>

\* The duration column of a row that has no duration yet.
NoDuration == <<>>

\* The image of a row that has no thumbnail of its own (default_thumbnail_idx).
DefaultThumbnail == "default"

\* thumbnail_path of an event that carries none (None).
NoPath == "None"

\* What becomes of an item's thumbnail once the provider has answered: the
\* answer names no thumbnail, download_thumbnail returns None, or it returns
\* the path of the saved image.
ThumbOutcomes == {"none", "fails", "saved"}

\* Texts of the title column that are not provider titles.
FetchingTitle == <<"Fetching metadata...">>
MetadataErrorTitle == <<"Error: Metadata fetch failed">>

\* ------------------------------------------------------------- state
VARIABLES
    videos,            \* self.videos: sequence of VideoInfo
    rows,              \* self.list_view: sequence of rows (title, status column)
    downloading,       \* self.downloading
    cancel_requested,  \* self.cancel_requested
    download_threads,  \* self.download_threads: sequence of worker ids
    audio_only,        \* self.audio_only.GetValue()
    uiPc,              \* where the UI thread is: "idle" or "cancel_join"
    workers,           \* every _download_video thread ever started
    monitors,          \* every _monitor_downloads thread ever started
    metas,             \* every _fetch_metadata thread ever started
    frameQ,            \* events queued with wx.PostEvent(self, ...)
    appQ,              \* callbacks queued with wx.CallAfter(...)
    files,             \* output files present in the save directory
    playlist,          \* entries the process_playlist thread has still to visit
    sessionLog         \* session-level notifications shown so far

vars == <<videos, rows, downloading, cancel_requested, download_threads,
          audio_only, uiPc, workers, monitors, metas, frameQ, appQ, files,
          playlist, sessionLog>>

\* ------------------------------------------------------------- helpers
\* re.sub(r'[\\/*?:"<>|]', '_', video_title)
IllegalChars == {"\\", "/", "*", "?", ":", "\"", "<", ">", "|"}

SanitizeTitle(t) ==
    [i \in 1..Len(t) |-> IF t[i] \in IllegalChars THEN "_" ELSE t[i]]

\* The character class of clean_filename's pattern r'[\\/*?:"<>|]'
InvalidFilenameChars == {"\\", "/", "*", "?", ":", "\"", "<", ">", "|"}

\* clean_filename as it would be if re.sub replaced the first match only.
clean_filename_first_only(filename) ==
    [i \in 1..Len(filename) |->
        IF /\ filename[i] \in InvalidFilenameChars
           /\ \A k \in 1..(i - 1) : filename[k] \notin InvalidFilenameChars
        THEN "_" ELSE filename[i]]

\* clean_filename: re.sub replaces every match of the class with '_'
clean_filename(filename) ==
    [i \in 1..Len(filename) |->
        IF filename[i] \in InvalidFilenameChars THEN "_" ELSE filename[i]]

\* os.path.join(self.save_path, f"{video_title}{extension}")
OutputPath(title, audio) ==
    [base |-> title, suffix |-> "", ext |-> IF audio THEN ".mp3" ELSE ".mp4"]

\* The path the command built by build_download_command makes the executor
\* write: base + ".mp3" in audio mode, base + "_<height>p" + ext otherwise.
CommandOutput(output_path, audio) ==
    IF audio
    THEN [base |-> output_path.base, suffix |-> "", ext |-> ".mp3"]
    ELSE [base |-> output_path.base, suffix |-> "_%(height)sp",
          ext |-> output_path.ext]

\* format_duration: "Unknown", "h:mm:ss" or "m:ss", as the fields printed.
FormatDuration(seconds) ==
    IF seconds = 0 THEN <<"Unknown">>
    ELSE IF seconds > 3600
    THEN <<seconds \div 3600, (seconds % 3600) \div 60, seconds % 60>>
    ELSE <<seconds \div 60, seconds % 60>>

\* The characters of the output lines and of the progress texts.
LineChars(line) ==
    CASE line = "50.0%" -> <<"5", "0", ".", "0", "%">>
      [] line = "20.0%" -> <<"2", "0", ".", "0", "%">>
      [] line = "x250%" -> <<"x", "2", "5", "0", "%">>
      [] line = "250%" -> <<"2", "5", "0", "%">>
      [] line = "..%" -> <<".", ".", "%">>
      [] line = "N/A%" -> <<"N", "/", "A", "%">>
      [] line = "Merging" -> <<"M", "e", "r", "g", "i", "n", "g">>
      [] OTHER -> <<>>

ProgressTexts == {"50.0%", "20.0%", "250%", "..%"}

Digits == <<"0", "1", "2", "3", "4", "5", "6", "7", "8", "9">>

\* the character class [0-9.]
ProgressChars == {Digits[d] : d \in 1..Len(Digits)} \cup {"."}

\* the positions of a '%' that stands right after a character of the class
PercentEnds(c) == {j \in 2..Len(c) : c[j] = "%" /\ c[j - 1] \in ProgressChars}

\* re.search(r'([0-9.]+)%', line) on a line that contains '%'
HasPercent(line) == PercentEnds(LineChars(line)) # {}

\* match.group(1) + '%' of the leftmost match, the group taken greedily
MatchProgress(line) ==
    LET c == LineChars(line)
        j == CHOOSE e \in PercentEnds(c) : \A f \in PercentEnds(c) : e <= f
        i == CHOOSE a \in 1..(j - 1) :
                 /\ \A k \in a..(j - 1) : c[k] \in ProgressChars
                 /\ \A b \in 1..(a - 1) :
                        \E k \in b..(j - 1) : c[k] \notin ProgressChars
    IN CHOOSE t \in ProgressTexts : LineChars(t) = SubSeq(c, i, j)

\* float(progress_str) of on_download_progress accepts digits with at most one
\* point and at least one digit.
IsFloat(c) ==
    /\ \A k \in 1..Len(c) : c[k] \in ProgressChars
    /\ Cardinality({k \in 1..Len(c) : c[k] = "."}) <= 1
    /\ \E k \in 1..Len(c) : c[k] # "."

DigitValue(ch) == (CHOOSE d \in 1..Len(Digits) : Digits[d] = ch) - 1

RECURSIVE DecimalValue(_)
DecimalValue(c) ==
    IF c = <<>> THEN 0
    ELSE 10 * DecimalValue(SubSeq(c, 1, Len(c) - 1)) + DigitValue(c[Len(c)])

\* event.progress.strip() and progress_str[:-1] when it ends with '%'
ProgressStr(progress) ==
    LET c == LineChars(progress)
    IN IF c # <<>> /\ c[Len(c)] = "%" THEN SubSeq(c, 1, Len(c) - 1) ELSE c

\* int(float(progress_str)): the digits before the point
GaugeValue(progress) ==
    LET c == ProgressStr(progress)
        n == Cardinality({k \in 1..Len(c) : \A b \in 1..k : c[b] # "."})
    IN DecimalValue(SubSeq(c, 1, n))

\* NewWorker keeps, besides the locals of _download_video, what the thread
\* did: proc is its executor process ("none" until Popen), term whether that
\* process got a terminate request, sawFile whether the existence check found
\* the file, atCancel whether the process was running when a cancel was
\* requested, final the terminal status the thread reported, item the
\* identity of the VideoInfo object that stood at its index when the session
\* started.  The id of a VideoInfo is the number of the add that created it.

Alive(w) == workers[w].pc # "done"

AllDone(ids) == \A i \in 1..Len(ids) : ~Alive(ids[i])

\* self.list_view.SetItem(index, 3, text); no row at that position: no change
SetStatus(rs, index, text) ==
    IF index \in 1..Len(rs)
    THEN [rs EXCEPT ![index].status = text]
    ELSE rs

\* _is_url_in_queue
IsUrlInQueue(vs, url) == \E i \in 1..Len(vs) : vs[i].url = url

CountRows(rs, S) == Cardinality({i \in 1..Len(rs) : rs[i].status \in S})

NewWorker(s, index, link) ==
    [session |-> s, index |-> index, link |-> link, pc |-> "start",
     title |-> NoTitle, out |-> OutputPath(NoTitle, FALSE), audio |-> FALSE,
     proc |-> "none", term |-> FALSE, lines |-> 0, progress |-> "",
     sawFile |-> FALSE, atCancel |-> FALSE, final |-> "", item |-> 0]

\* A worker that has returned: its locals are gone.
Ended(wr, final) ==
    [wr EXCEPT !.pc = "done", !.title = NoTitle, !.lines = 0, !.progress = "",
              !.final = final]

CompleteEvent(index, success) ==
    [type |-> "complete", index |-> index, success |-> success, text |-> "",
     title |-> NoTitle, duration |-> NoDuration, thumbnail_path |-> NoPath]

ProgressEvent(index, progress) ==
    [type |-> "progress", index |-> index, success |-> TRUE, text |-> progress,
     title |-> NoTitle, duration |-> NoDuration, thumbnail_path |-> NoPath]

MetadataEvent(index, success) ==
    [type |-> "metadata", index |-> index, success |-> success, text |-> "",
     title |-> NoTitle, duration |-> NoDuration, thumbnail_path |-> NoPath]

SetItemCall(index, text) ==
    [type |-> "SetItem", index |-> index, session |-> 0, text |-> text]

AddVideoCall(url) ==
    [type |-> "add_video", index |-> 0, session |-> 0, text |-> url]

CompleteCall(s) ==
    [type |-> "downloads_complete", index |-> 0, session |-> s, text |-> ""]

\* Files that can lie in the save directory when the program starts.
PreexistingFiles == {OutputPath(SanitizeTitle(ProviderTitle("u1")), FALSE)}

\* ------------------------------------------------------------- initial state
Init ==
    /\ videos = <<>>
    /\ rows = <<>>
    /\ downloading = FALSE
    /\ cancel_requested = FALSE
    /\ download_threads = <<>>
    /\ audio_only = FALSE
    /\ uiPc = "idle"
    /\ workers = <<>>
    /\ monitors = <<>>
    /\ metas = <<>>
    /\ frameQ = <<>>
    /\ appQ = <<>>
    /\ files \in SUBSET PreexistingFiles
    /\ playlist = <<>>
    /\ sessionLog = <<>>

\* ------------------------------------------------------------- queue handlers
\* What the user can type or import as one line.
RawLines == Urls \cup {"", "bad", " u1 "}

\* str.strip()
Strip(line) == IF line = " u1 " THEN "u1" ELSE line

\* is_valid_link: the supported-platform pattern matches the queueable URLs
IsValidLink(link) == link \in Urls

Batches == UNION {[1..n -> RawLines] : n \in 1..MaxBatch}

\* The queue as the three collections _add_video_to_list extends together.
QueueState == [vs |-> videos, rs |-> rows, ms |-> metas]

\* _add_video_to_list: append the item, insert its row at the end of the list
\* view, start its resolver thread on the row's position.
AddVideoToList(q, url) ==
    [vs |-> Append(q.vs, [id |-> Len(q.ms) + 1, url |-> url, title |-> NoTitle,
                          status |-> "Pending", process |-> 0]),
     rs |-> Append(q.rs, [title |-> FetchingTitle, duration |-> NoDuration,
                          status |-> "", thumb |-> DefaultThumbnail,
                          item |-> Len(q.ms) + 1]),
     ms |-> Append(q.ms, [index |-> Len(q.rs) + 1, link |-> url, pc |-> "start",
                          answer |-> "none", posted |-> "none",
                          thumb |-> "none"])]

\* The loop of on_add_video as it would be if the first invalid link ended
\* it: the lines after that link are not looked at.
RECURSIVE AddLinksUntilInvalid(_, _)
AddLinksUntilInvalid(q, links) ==
    IF links = <<>> THEN q
    ELSE LET link == Strip(Head(links))
         IN IF link # "" /\ ~IsUrlInQueue(q.vs, link) /\ ~IsValidLink(link)
            THEN q
            ELSE AddLinksUntilInvalid(
                     IF link # "" /\ ~IsUrlInQueue(q.vs, link)
                     THEN AddVideoToList(q, link) ELSE q,
                     Tail(links))

\* The loop of on_add_video over the lines of the entry field.
RECURSIVE AddLinks(_, _)
AddLinks(q, links) ==
    IF links = <<>> THEN q
    ELSE LET link == Strip(Head(links))
             q2 == IF link # "" /\ ~IsUrlInQueue(q.vs, link) /\ IsValidLink(link)
                   THEN AddVideoToList(q, link)
                   ELSE q
         IN AddLinks(q2, Tail(links))

\* The first loop of on_import_urls: the URLs of the file that are valid and
\* not in the queue when the file is read.
RECURSIVE ValidUrls(_, _)
ValidUrls(vs, urls) ==
    IF urls = <<>> THEN <<>>
    ELSE LET url == Strip(Head(urls))
             rest == ValidUrls(vs, Tail(urls))
         IN IF url # "" /\ IsValidLink(url) /\ ~IsUrlInQueue(vs, url)
            THEN <<url>> \o rest
            ELSE rest

\* The second loop of on_import_urls: every collected URL is added.
RECURSIVE AddAll(_, _)
AddAll(q, urls) ==
    IF urls = <<>> THEN q
    ELSE AddAll(AddVideoToList(q, Head(urls)), Tail(urls))

SessionVars == <<downloading, cancel_requested, download_threads, audio_only,
                 uiPc, workers, monitors, frameQ, appQ, files, playlist,
                 sessionLog>>

on_add_video(links) ==
    /\ uiPc = "idle"
    /\ LET q == AddLinks(QueueState, links)
       IN /\ videos' = q.vs
          /\ rows' = q.rs
          /\ metas' = q.ms
    /\ UNCHANGED SessionVars

on_import_urls(urls) ==
    /\ uiPc = "idle"
    /\ LET q == AddAll(QueueState, ValidUrls(videos, urls))
       IN /\ videos' = q.vs
          /\ rows' = q.rs
          /\ metas' = q.ms
    /\ UNCHANGED SessionVars

on_clear_list ==
    /\ uiPc = "idle"
    /\ IF downloading \/ Len(rows) = 0
       THEN UNCHANGED <<videos, rows>>
       ELSE /\ videos' = <<>>
            /\ rows' = <<>>
    /\ UNCHANGED <<metas, SessionVars>>

\* The user ticks or unticks 'Audio Only (MP3)'.
ToggleAudioOnly ==
    /\ uiPc = "idle"
    /\ audio_only' = ~audio_only
    /\ UNCHANGED <<videos, rows, downloading, cancel_requested, download_threads,
                   uiPc, workers, monitors, metas, frameQ, appQ, files,
                   playlist, sessionLog>>

\* ------------------------------------------------------------- reordering
\* move_item_up, move_item_down and remove_selected_item of src/main.py.
\* item is the Python index of the clicked row (position item + 1 here).

\* The values of the title, duration and status columns of the rows at
\* positions p and p + 1 written to each other's row; the image of column 0
\* stays with the row.
SwapRows(rs, p) ==
    LET data == <<rs[p], rs[p + 1]>>
    IN [rs EXCEPT ![p] = [title |-> data[2].title,
                          duration |-> data[2].duration,
                          status |-> data[2].status,
                          thumb |-> data[1].thumb, item |-> data[2].item],
                  ![p + 1] = [title |-> data[1].title,
                              duration |-> data[1].duration,
                              status |-> data[1].status,
                              thumb |-> data[2].thumb, item |-> data[1].item]]

\* self.videos[a], self.videos[b] = self.videos[b], self.videos[a]
SwapVideos(vs, p) == [vs EXCEPT ![p] = vs[p + 1], ![p + 1] = vs[p]]

QueueUnchanged == <<downloading, cancel_requested, download_threads, audio_only,
                    uiPc, workers, monitors, metas, frameQ, appQ, files,
                    playlist, sessionLog>>

\* move_item_up as it would be if it left the duration column in place.
move_item_up_keeps_duration(item) ==
    /\ uiPc = "idle"
    /\ IF item > 0
       THEN /\ videos' = SwapVideos(videos, item)
            /\ rows' = [SwapRows(rows, item) EXCEPT
                            ![item].duration = rows[item].duration,
                            ![item + 1].duration = rows[item + 1].duration]
       ELSE UNCHANGED <<videos, rows>>
    /\ UNCHANGED QueueUnchanged

move_item_up(item) ==
    /\ uiPc = "idle"
    /\ IF item > 0
       THEN /\ videos' = SwapVideos(videos, item)
            /\ rows' = SwapRows(rows, item)
       ELSE UNCHANGED <<videos, rows>>
    /\ UNCHANGED QueueUnchanged

\* self.videos[-1], self.videos[0] = self.videos[0], self.videos[-1]
SwapEnds(vs) == [vs EXCEPT ![1] = vs[Len(vs)], ![Len(vs)] = vs[1]]

\* The three columns of the row at position p set to the empty string.
BlankRow(rs, p) ==
    [rs EXCEPT ![p] = [title |-> NoTitle, duration |-> NoDuration, status |-> "",
                       thumb |-> rs[p].thumb, item |-> rs[p].item]]

\* With item = -1 the test passes for a queue that is not empty: the list
\* swap takes self.videos[-1], the last item, and self.videos[0].  The list
\* view is then asked for row -1: either the call raises and the handler
\* ends with the rows as they were, or it answers '' and row 0 is
\* overwritten with the empty texts read for row -1.
move_item_down(item) ==
    /\ uiPc = "idle"
    /\ IF item < Len(rows) - 1
       THEN IF item >= 0
            THEN /\ videos' = SwapVideos(videos, item + 1)
                 /\ rows' = SwapRows(rows, item + 1)
            ELSE /\ videos' = SwapEnds(videos)
                 /\ rows' \in {rows, BlankRow(rows, 1)}
       ELSE UNCHANGED <<videos, rows>>
    /\ UNCHANGED QueueUnchanged

\* list.pop(index) / DeleteItem(index)
RemoveAt(seq, p) == [k \in 1..(Len(seq) - 1) |-> IF k < p THEN seq[k] ELSE seq[k + 1]]

remove_selected_item(index) ==
    /\ uiPc = "idle"
    /\ IF index # -1
       THEN /\ videos' = RemoveAt(videos, index + 1)
            /\ rows' = RemoveAt(rows, index + 1)
       ELSE UNCHANGED <<videos, rows>>
    /\ UNCHANGED QueueUnchanged

\* ------------------------------------------------------------- session handlers
SessionCount == Len(monitors)

\* on_download_videos as it would be without its checks: the session is
\* started whatever the state of the frame and of the save directory.
on_download_videos_unchecked(dir) ==
    /\ uiPc = "idle"
    /\ LET s == SessionCount + 1
           n == Len(workers)
           ids == [i \in 1..Len(videos) |-> n + i]
       IN /\ workers' = workers \o
                [i \in 1..Len(videos) |->
                    [NewWorker(s, i, videos[i].url) EXCEPT !.item = videos[i].id]]
          /\ download_threads' = ids
          /\ monitors' = Append(monitors, [pc |-> "start", list |-> <<>>])
    /\ downloading' = TRUE
    /\ cancel_requested' = FALSE
    /\ UNCHANGED <<videos, rows, audio_only, uiPc, metas, frameQ, appQ,
                   files, playlist, sessionLog>>

\* on_download_videos as it would be if the thread target were a closure
\* over the loop variables: every worker runs with the last index and URL.
on_download_videos_late_binding(dir) ==
    /\ uiPc = "idle"
    /\ IF downloading \/ Len(videos) = 0 \/ dir = "fails"
       THEN UNCHANGED vars
       ELSE /\ dir = "created" => files = {}
            /\ LET s == SessionCount + 1
                   n == Len(workers)
                   last == Len(videos)
                   ids == [i \in 1..Len(videos) |-> n + i]
               IN /\ workers' = workers \o
                        [i \in 1..Len(videos) |->
                            [NewWorker(s, last, videos[last].url) EXCEPT
                                !.item = videos[last].id]]
                  /\ download_threads' = ids
                  /\ monitors' = Append(monitors, [pc |-> "start", list |-> <<>>])
            /\ downloading' = TRUE
            /\ cancel_requested' = FALSE
            /\ UNCHANGED <<videos, rows, audio_only, uiPc, metas, frameQ, appQ,
                           files, playlist, sessionLog>>

\* on_download_videos.  dir is what the save directory check meets: the
\* directory exists, it is created, or os.makedirs raises.
on_download_videos(dir) ==
    /\ uiPc = "idle"
    /\ IF downloading \/ Len(videos) = 0 \/ dir = "fails"
       THEN UNCHANGED vars
       ELSE /\ dir = "created" => files = {}
            /\ LET s == SessionCount + 1
                   n == Len(workers)
                   ids == [i \in 1..Len(videos) |-> n + i]
               IN /\ workers' = workers \o
                        [i \in 1..Len(videos) |->
                    [NewWorker(s, i, videos[i].url) EXCEPT !.item = videos[i].id]]
                  /\ download_threads' = ids
                  /\ monitors' = Append(monitors, [pc |-> "start", list |-> <<>>])
            /\ downloading' = TRUE
            /\ cancel_requested' = FALSE
            /\ UNCHANGED <<videos, rows, audio_only, uiPc, metas, frameQ, appQ,
                           files, playlist, sessionLog>>

\* process.terminate() on the handle a worker stored: a running process is
\* killed (it exits non-zero), an exited one is left as it is.
Terminate(ws, w) ==
    IF ws[w].proc = "running"
    THEN [ws EXCEPT ![w].term = TRUE, ![w].proc = "exit1"]
    ELSE ws

\* The loop of on_cancel_downloads over self.videos: terminate the process
\* of every item that holds a handle.
TerminateAll(ws, vs) ==
    [w \in DOMAIN ws |->
        IF \E i \in 1..Len(vs) : vs[i].process = w
        THEN Terminate(ws, w)[w]
        ELSE ws[w]]

\* Note on every worker whether its process is running at this moment.
MarkRunning(ws) ==
    [w \in DOMAIN ws |-> [ws[w] EXCEPT !.atCancel = (ws[w].proc = "running")]]

\* on_cancel_downloads as it would be without its first test: the flag is set
\* and the stored handles are terminated whether or not a session runs.
on_cancel_downloads_unguarded ==
    /\ uiPc = "idle"
    /\ cancel_requested' = TRUE
    /\ workers' = TerminateAll(MarkRunning(workers), videos)
    /\ uiPc' = "cancel_join"
    /\ UNCHANGED <<videos, rows, downloading, download_threads,
                   audio_only, monitors, metas, frameQ, appQ, files,
                   playlist, sessionLog>>

\* on_cancel_downloads (the definition in force, the second of the class) up
\* to its join loop: set the flag, terminate every stored process handle.
on_cancel_downloads ==
    /\ uiPc = "idle"
    /\ IF ~downloading
       THEN UNCHANGED vars
       ELSE /\ cancel_requested' = TRUE
            /\ workers' = TerminateAll(MarkRunning(workers), videos)
            /\ uiPc' = "cancel_join"
            /\ UNCHANGED <<videos, rows, downloading, download_threads,
                           audio_only, monitors, metas, frameQ, appQ, files,
                           playlist, sessionLog>>

\* on_cancel_downloads as it would be with a join that gives up: the flag is
\* cleared although threads of self.download_threads may still run.
CancelWithoutJoin ==
    /\ uiPc = "cancel_join"
    /\ downloading' = FALSE
    /\ uiPc' = "idle"
    /\ sessionLog' = Append(sessionLog,
          [kind |-> "cancelled", session |-> SessionCount,
           success |-> 0, failed |-> 0, statuses |-> <<>>])
    /\ UNCHANGED <<videos, rows, cancel_requested, download_threads, audio_only,
                   workers, monitors, metas, frameQ, appQ, files, playlist>>

\* on_cancel_downloads from the end of its join loop: every thread of
\* self.download_threads has been joined.
CancelJoined ==
    /\ uiPc = "cancel_join"
    /\ AllDone(download_threads)
    /\ downloading' = FALSE
    /\ uiPc' = "idle"
    /\ sessionLog' = Append(sessionLog,
          [kind |-> "cancelled", session |-> SessionCount,
           success |-> 0, failed |-> 0, statuses |-> <<>>])
    /\ UNCHANGED <<videos, rows, cancel_requested, download_threads, audio_only,
                   workers, monitors, metas, frameQ, appQ, files, playlist>>

\* ------------------------------------------------------------- download worker
WorkerUnchanged == <<rows, downloading, cancel_requested, download_threads,
                     audio_only, uiPc, monitors, metas, playlist, sessionLog>>

\* _download_video as it would be if a failure aborted the session: every
\* worker of the session is ended as Failed.
WorkerFailsSession(w) ==
    /\ workers' = [v \in DOMAIN workers |->
                      IF workers[v].session = workers[w].session
                      THEN Ended(workers[v], "Failed")
                      ELSE workers[v]]
    /\ frameQ' = Append(frameQ, CompleteEvent(workers[w].index, FALSE))

\* The except clause of _download_video: post a failure event and end.
WorkerFails(w) ==
    /\ workers' = [workers EXCEPT ![w] = Ended(@, "Failed")]
    /\ frameQ' = Append(frameQ, CompleteEvent(workers[w].index, FALSE))

\* _download_video up to the sanitizing of the title: queue "Preparing...",
\* read the item's title and, when it has none, ask the provider (ok: the
\* fallback call returned a title).  The fallback call reads and writes
\* nothing shared, so it is part of this step.
WorkerStart(w, ok) ==
    /\ workers[w].pc = "start"
    /\ appQ' = Append(appQ, SetItemCall(workers[w].index, "Preparing..."))
    /\ LET i == workers[w].index
       IN IF i > Len(videos)
          THEN WorkerFails(w)
          ELSE IF videos[i].title # NoTitle
          THEN /\ workers' = [workers EXCEPT ![w].pc = "check",
                                 ![w].title = videos[i].title]
               /\ UNCHANGED frameQ
          ELSE IF ok
          THEN /\ workers' = [workers EXCEPT ![w].pc = "check",
                                 ![w].title = ProviderTitle(workers[w].link)]
               /\ UNCHANGED frameQ
          ELSE WorkerFails(w)
    /\ UNCHANGED <<videos, files, WorkerUnchanged>>

\* _download_video as it would be without the early return of the existence
\* check: the result of the check is noted and the command is built anyway.
WorkerCheckNoReturn(w) ==
    /\ workers[w].pc = "check"
    /\ LET out == OutputPath(SanitizeTitle(workers[w].title), audio_only)
       IN workers' = [workers EXCEPT ![w].pc = "spawn", ![w].out = out,
                                     ![w].sawFile = (out \in files)]
    /\ UNCHANGED <<videos, frameQ, appQ, files, WorkerUnchanged>>

\* Sanitize the title, choose the extension, form the output path and check
\* whether the file exists.
WorkerCheck(w) ==
    /\ workers[w].pc = "check"
    /\ LET out == OutputPath(SanitizeTitle(workers[w].title), audio_only)
       IN IF out \in files
          THEN /\ workers' = [workers EXCEPT
                     ![w] = [Ended(@, "Already Downloaded") EXCEPT
                                !.out = out, !.sawFile = TRUE]]
               /\ appQ' = Append(appQ,
                      SetItemCall(workers[w].index, "Already Downloaded"))
          ELSE /\ workers' = [workers EXCEPT ![w].pc = "spawn", ![w].out = out]
               /\ UNCHANGED appQ
    /\ UNCHANGED <<videos, frameQ, files, WorkerUnchanged>>

\* build_download_command and subprocess.Popen (ok: Popen did not raise).
WorkerSpawn(w, ok) ==
    /\ workers[w].pc = "spawn"
    /\ IF ok
       THEN /\ workers' = [workers EXCEPT ![w].pc = "store",
                              ![w].proc = "running",
                              ![w].audio = audio_only]
            /\ UNCHANGED frameQ
       ELSE WorkerFails(w)
    /\ UNCHANGED <<videos, appQ, files, WorkerUnchanged>>

\* self.videos[index].process = process
WorkerStore(w) ==
    /\ workers[w].pc = "store"
    /\ LET i == workers[w].index
       IN IF i > Len(videos)
          THEN /\ WorkerFails(w)
               /\ UNCHANGED videos
          ELSE /\ videos' = [videos EXCEPT ![i].process = w]
               /\ workers' = [workers EXCEPT ![w].pc = "loop"]
               /\ UNCHANGED frameQ
    /\ UNCHANGED <<appQ, files, WorkerUnchanged>>

\* One pass of the stdout loop: a line is read (from a running process, or
\* from the pipe of one that has exited).
WorkerLine(w, line) ==
    /\ workers[w].pc = "loop"
    /\ IF cancel_requested
       THEN /\ workers' = [workers EXCEPT
                     ![w] = Ended(Terminate(workers, w)[w], "Cancelled")]
            /\ frameQ' = Append(frameQ, CompleteEvent(workers[w].index, FALSE))
            /\ appQ' = Append(appQ, SetItemCall(workers[w].index, "Cancelled"))
       ELSE /\ workers' = [workers EXCEPT
                     ![w].lines = @ + 1,
                     ![w].progress = IF HasPercent(line)
                                     THEN MatchProgress(line) ELSE @]
            /\ frameQ' = IF HasPercent(line)
                         THEN Append(frameQ, ProgressEvent(workers[w].index,
                                                           MatchProgress(line)))
                         ELSE frameQ
            /\ UNCHANGED appQ
    /\ UNCHANGED <<videos, files, WorkerUnchanged>>

\* readline returns '' and process.wait() the exit code.
WorkerEof(w) ==
    /\ workers[w].pc = "loop"
    /\ workers[w].proc \in {"exit0", "exit1"}
    /\ LET ok == workers[w].proc = "exit0"
       IN /\ workers' = [workers EXCEPT
                ![w] = Ended(@, IF ok THEN "Downloaded" ELSE "Failed")]
          /\ frameQ' = Append(frameQ, CompleteEvent(workers[w].index, ok))
    /\ UNCHANGED <<videos, appQ, files, WorkerUnchanged>>

\* The executor process ends by itself: code 0 with its output file written,
\* or a non-zero code.
ProcessExits(w, code) ==
    /\ workers[w].proc = "running"
    /\ workers' = [workers EXCEPT ![w].proc = IF code = 0 THEN "exit0" ELSE "exit1"]
    /\ files' = IF code = 0
                THEN files \cup {CommandOutput(workers[w].out, workers[w].audio)}
                ELSE files
    /\ UNCHANGED <<videos, frameQ, appQ, WorkerUnchanged>>

\* ------------------------------------------------------------- src/main.py session
\* download_videos and download_video of the class VideoDownloader: the
\* checks and the threads are those of on_download_videos, without the cancel
\* flag; the worker reports everything with wx.CallAfter and stores no
\* process handle.  monitor_downloads and on_downloads_complete read as
\* _monitor_downloads and _on_downloads_complete do.
download_videos(dir) ==
    /\ uiPc = "idle"
    /\ IF downloading \/ Len(videos) = 0 \/ dir = "fails"
       THEN UNCHANGED vars
       ELSE /\ dir = "created" => files = {}
            /\ LET s == SessionCount + 1
                   n == Len(workers)
                   ids == [i \in 1..Len(videos) |-> n + i]
               IN /\ workers' = workers \o
                        [i \in 1..Len(videos) |->
                            [NewWorker(s, i, videos[i].url) EXCEPT
                                !.item = videos[i].id]]
                  /\ download_threads' = ids
                  /\ monitors' = Append(monitors, [pc |-> "start", list |-> <<>>])
            /\ downloading' = TRUE
            /\ UNCHANGED <<videos, rows, cancel_requested, audio_only, uiPc,
                           metas, frameQ, appQ, files, playlist, sessionLog>>

\* What download_video leaves alone.
DvUnchanged == <<videos, rows, downloading, cancel_requested, download_threads,
                 audio_only, uiPc, monitors, metas, frameQ, playlist, sessionLog>>

\* The thread ends after queueing a status for its index.
DvEnds(w, calls, final) ==
    /\ workers' = [workers EXCEPT ![w] = Ended(@, final)]
    /\ appQ' = appQ \o calls

\* download_video up to the sanitizing of the title (ok: the fallback
\* 'yt-dlp --get-title' returned 0).
DvStart(w, ok) ==
    /\ workers[w].pc = "start"
    /\ LET i == workers[w].index
           preparing == SetItemCall(i, "Preparing...")
       IN IF i > Len(videos)
          THEN DvEnds(w, <<preparing, SetItemCall(i, "Error")>>, "Error")
          ELSE IF videos[i].title # NoTitle \/ ok
          THEN /\ workers' = [workers EXCEPT ![w].pc = "check",
                                 ![w].title = IF videos[i].title # NoTitle
                                              THEN videos[i].title
                                              ELSE ProviderTitle(workers[w].link)]
               /\ appQ' = Append(appQ, preparing)
          ELSE DvEnds(w, <<preparing, SetItemCall(i, "Failed")>>, "Failed")
    /\ UNCHANGED <<files, DvUnchanged>>

DvCheck(w) ==
    /\ workers[w].pc = "check"
    /\ LET out == OutputPath(SanitizeTitle(workers[w].title), audio_only)
       IN IF out \in files
          THEN /\ workers' = [workers EXCEPT
                     ![w] = [Ended(@, "Already Downloaded") EXCEPT
                                !.out = out, !.sawFile = TRUE]]
               /\ appQ' = Append(appQ,
                      SetItemCall(workers[w].index, "Already Downloaded"))
          ELSE /\ workers' = [workers EXCEPT ![w].pc = "spawn", ![w].out = out]
               /\ UNCHANGED appQ
    /\ UNCHANGED <<files, DvUnchanged>>

\* build_download_command of src/main.py and subprocess.Popen.
DvSpawn(w, ok) ==
    /\ workers[w].pc = "spawn"
    /\ IF ok
       THEN /\ workers' = [workers EXCEPT ![w].pc = "loop",
                              ![w].proc = "running",
                              ![w].audio = audio_only]
            /\ UNCHANGED appQ
       ELSE DvEnds(w, <<SetItemCall(workers[w].index, "Error")>>, "Error")
    /\ UNCHANGED <<files, DvUnchanged>>

\* re.match(r'^\d{1,3}\.\d%', line), or "download" and a percentage in it
IsProgressLine(line) == line = "50.0%"

\* update_progress: f"Downloading {progress}"
ProgressText(line) == IF line = "50.0%" THEN "Downloading 50.0%" ELSE "Downloading"

DvLine(w, line) ==
    /\ workers[w].pc = "loop"
    /\ workers[w].lines < MaxLines
    /\ workers' = [workers EXCEPT ![w].lines = @ + 1]
    /\ appQ' = IF IsProgressLine(line)
               THEN Append(appQ, SetItemCall(workers[w].index, ProgressText(line)))
               ELSE appQ
    /\ UNCHANGED <<files, DvUnchanged>>

DvEof(w) ==
    /\ workers[w].pc = "loop"
    /\ workers[w].proc \in {"exit0", "exit1"}
    /\ LET final == IF workers[w].proc = "exit0" THEN "Downloaded" ELSE "Failed"
       IN DvEnds(w, <<SetItemCall(workers[w].index, final)>>, final)
    /\ UNCHANGED <<files, DvUnchanged>>

\* The executor process started by src/main.py ends by itself: its command
\* names the checked path as the output.
DvProcessExits(w, code) ==
    /\ workers[w].proc = "running"
    /\ workers' = [workers EXCEPT ![w].proc = IF code = 0 THEN "exit0" ELSE "exit1"]
    /\ files' = IF code = 0 THEN files \cup {workers[w].out} ELSE files
    /\ UNCHANGED <<appQ, DvUnchanged>>

\* ------------------------------------------------------------- monitor thread
\* _monitor_downloads starts its loop over the list self.download_threads
\* names at that moment.
MonitorStart(s) ==
    /\ monitors[s].pc = "start"
    /\ monitors' = [monitors EXCEPT ![s].pc = "join", ![s].list = download_threads]
    /\ UNCHANGED <<videos, rows, downloading, cancel_requested, download_threads,
                   audio_only, uiPc, workers, metas, frameQ, appQ, files,
                   playlist, sessionLog>>

\* Every thread of the list is joined: wx.CallAfter(self._on_downloads_complete).
MonitorJoined(s) ==
    /\ monitors[s].pc = "join"
    /\ AllDone(monitors[s].list)
    /\ monitors' = [monitors EXCEPT ![s].pc = "done"]
    /\ appQ' = Append(appQ, CompleteCall(s))
    /\ UNCHANGED <<videos, rows, downloading, cancel_requested, download_threads,
                   audio_only, uiPc, workers, metas, frameQ, files, playlist,
                   sessionLog>>

\* ------------------------------------------------------------- resolver thread
\* _fetch_metadata up to the provider call: return at once when a cancel is
\* requested.  A resolver record keeps what the thread met: answer is what
\* the provider call returned ("none" before it), posted the event it posted.
MetaStart(m) ==
    /\ metas[m].pc = "start"
    /\ metas' = [metas EXCEPT ![m].pc = IF cancel_requested THEN "done" ELSE "fetching"]
    /\ UNCHANGED <<videos, rows, downloading, cancel_requested, download_threads,
                   audio_only, uiPc, workers, monitors, frameQ, appQ, files,
                   playlist, sessionLog>>

\* The path download_thumbnail saves the image under (one per video id).
ThumbnailPath(link) == link

\* _fetch_metadata as it would be if a failed thumbnail download raised into
\* its except clause: the failure event is posted although the provider
\* answered.
MetaFetchedThumbFatal(m, ok, thumb) ==
    /\ metas[m].pc = "fetching"
    /\ ok \/ thumb = "none"
    /\ LET i == metas[m].index
           title == ProviderTitle(metas[m].link)
           duration == FormatDuration(ProviderDuration(metas[m].link))
           success == ok /\ ~cancel_requested /\ i <= Len(videos)
       IN /\ metas' = [metas EXCEPT ![m].pc = "done",
                ![m].answer = IF ok THEN "ok" ELSE "error",
                ![m].posted = IF success /\ thumb # "fails"
                              THEN "ready" ELSE "error",
                ![m].thumb = IF success THEN thumb ELSE "none"]
          /\ IF success
             THEN /\ videos' = [videos EXCEPT ![i].title = title]
                  /\ frameQ' = Append(frameQ,
                         IF thumb = "fails"
                         THEN MetadataEvent(i, FALSE)
                         ELSE [MetadataEvent(i, TRUE) EXCEPT
                                  !.title = title, !.duration = duration,
                                  !.thumbnail_path =
                                      IF thumb = "saved"
                                      THEN ThumbnailPath(metas[m].link)
                                      ELSE NoPath])
             ELSE /\ frameQ' = Append(frameQ, MetadataEvent(i, FALSE))
                  /\ UNCHANGED videos
    /\ UNCHANGED <<rows, downloading, cancel_requested, download_threads,
                   audio_only, uiPc, workers, monitors, appQ, files, playlist,
                   sessionLog>>

\* fetch_video_metadata returns: on an error, a requested cancel or a raised
\* exception post the failure event, else store the title, fetch the
\* thumbnail the answer names (thumb: what becomes of it) and post success.
\* The resolver record keeps the thumbnail outcome of a successful answer.
MetaFetched(m, ok, thumb) ==
    /\ metas[m].pc = "fetching"
    /\ ok \/ thumb = "none"
    /\ LET i == metas[m].index
           title == ProviderTitle(metas[m].link)
           duration == FormatDuration(ProviderDuration(metas[m].link))
           success == ok /\ ~cancel_requested /\ i <= Len(videos)
       IN /\ metas' = [metas EXCEPT ![m].pc = "done",
                ![m].answer = IF ok THEN "ok" ELSE "error",
                ![m].posted = IF success THEN "ready" ELSE "error",
                ![m].thumb = IF success THEN thumb ELSE "none"]
          /\ IF success
             THEN /\ videos' = [videos EXCEPT ![i].title = title]
                  /\ frameQ' = Append(frameQ,
                         [MetadataEvent(i, TRUE) EXCEPT
                             !.title = title, !.duration = duration,
                             !.thumbnail_path =
                                 IF thumb = "saved"
                                 THEN ThumbnailPath(metas[m].link)
                                 ELSE NoPath])
             ELSE /\ frameQ' = Append(frameQ, MetadataEvent(i, FALSE))
                  /\ UNCHANGED videos
    /\ UNCHANGED <<rows, downloading, cancel_requested, download_threads,
                   audio_only, uiPc, workers, monitors, appQ, files, playlist,
                   sessionLog>>

\* ------------------------------------------------------------- playlist thread
\* What yt-dlp --flat-playlist can list: the ids of a playlist's entries.
PlaylistEntries == UNION {[1..n -> Urls] : n \in 1..MaxBatch}

\* process_playlist (src/main.py) once the listing has returned.
process_playlist(entries) ==
    /\ playlist = <<>>
    /\ playlist' = entries
    /\ UNCHANGED <<videos, rows, downloading, cancel_requested, download_threads,
                   audio_only, uiPc, workers, monitors, metas, frameQ, appQ,
                   files, sessionLog>>

\* One pass of the loop of process_playlist: an entry not in the queue is
\* handed to the UI thread with wx.CallAfter(self._add_video_to_list, ...).
PlaylistStep ==
    /\ playlist # <<>>
    /\ playlist' = Tail(playlist)
    /\ appQ' = IF IsUrlInQueue(videos, Head(playlist))
               THEN appQ
               ELSE Append(appQ, AddVideoCall(Head(playlist)))
    /\ UNCHANGED <<videos, rows, downloading, cancel_requested, download_threads,
                   audio_only, uiPc, workers, monitors, metas, frameQ, files,
                   sessionLog>>

\* ------------------------------------------------------------- event delivery
\* on_download_progress, on_download_complete, on_metadata_fetched
HandleFrameEvent(rs, e) ==
    IF e.type = "progress" THEN SetStatus(rs, e.index, e.text)
    ELSE IF e.type = "complete"
    THEN SetStatus(rs, e.index, IF e.success THEN "Downloaded" ELSE "Failed")
    ELSE IF e.index \notin 1..Len(rs) THEN rs
    ELSE IF e.success
    THEN [rs EXCEPT ![e.index].title = e.title, ![e.index].duration = e.duration,
                    ![e.index].status = "Ready",
                    ![e.index].thumb = IF e.thumbnail_path # NoPath
                                       THEN e.thumbnail_path ELSE @]
    ELSE [rs EXCEPT ![e.index].title = MetadataErrorTitle,
                    ![e.index].status = "Error"]

\* The UI thread handles the oldest event posted to the frame.
DeliverFrameEvent ==
    /\ uiPc = "idle"
    /\ frameQ # <<>>
    /\ rows' = HandleFrameEvent(rows, Head(frameQ))
    /\ frameQ' = Tail(frameQ)
    /\ UNCHANGED <<videos, downloading, cancel_requested, download_threads,
                   audio_only, uiPc, workers, monitors, metas, appQ, files,
                   playlist, sessionLog>>

\* The tally of _on_downloads_complete over the status column.
SuccessCount(rs) == CountRows(rs, {"Downloaded"})
FailedCount(rs) == CountRows(rs, {"Failed", "Error"})

\* _on_downloads_complete, queued by the monitor of session s
on_downloads_complete(s) ==
    /\ downloading' = FALSE
    /\ cancel_requested' = FALSE
    /\ sessionLog' = Append(sessionLog,
          [kind |-> "summary", session |-> s,
           success |-> SuccessCount(rows), failed |-> FailedCount(rows),
           statuses |-> [i \in 1..Len(rows) |-> rows[i].status]])
    /\ UNCHANGED <<videos, rows, metas>>

\* The UI thread runs the oldest callback queued with wx.CallAfter.
DeliverAppCall ==
    /\ uiPc = "idle"
    /\ appQ # <<>>
    /\ LET c == Head(appQ)
       IN IF c.type = "SetItem"
          THEN /\ rows' = SetStatus(rows, c.index, c.text)
               /\ UNCHANGED <<videos, metas, downloading, cancel_requested,
                              sessionLog>>
          ELSE IF c.type = "add_video"
          THEN /\ LET q == AddVideoToList(QueueState, c.text)
                  IN /\ videos' = q.vs
                     /\ rows' = q.rs
                     /\ metas' = q.ms
               /\ UNCHANGED <<downloading, cancel_requested, sessionLog>>
          ELSE on_downloads_complete(c.session)
    /\ appQ' = Tail(appQ)
    /\ UNCHANGED <<download_threads, audio_only, uiPc, workers, monitors,
                   frameQ, files, playlist>>

\* ------------------------------------------------------------- specification
Workers == 1..Len(workers)

DirOutcomes == {"exists", "created", "fails"}

\* What the monitor threads and the UI event loop do.
Coordination ==
    \/ \E s \in 1..Len(monitors) : MonitorStart(s)
    \/ \E s \in 1..Len(monitors) : MonitorJoined(s)
    \/ DeliverFrameEvent
    \/ DeliverAppCall

\* What a download worker and its executor process do after the start.
Downloading ==
    \/ \E w \in Workers : WorkerCheck(w)
    \/ \E w \in Workers, ok \in BOOLEAN : WorkerSpawn(w, ok)
    \/ \E w \in Workers : WorkerStore(w)
    \/ \E w \in Workers, line \in Lines :
          workers[w].lines < MaxLines /\ WorkerLine(w, line)
    \/ \E w \in Workers : WorkerEof(w)
    \/ \E w \in Workers, code \in {0, 1} : ProcessExits(w, code)

\* One download session over a queue of up to MaxItems items, with cancel.
Next ==
    \/ \E u \in Urls : on_add_video(<<u>>) /\ Len(metas') <= MaxItems
    \/ on_clear_list
    \/ \E dir \in DirOutcomes :
          on_download_videos(dir) /\ Len(monitors') <= MaxSessions
    \/ on_cancel_downloads
    \/ CancelJoined
    \/ \E w \in Workers, ok \in BOOLEAN : WorkerStart(w, ok)
    \/ Downloading
    \/ Coordination

Spec == Init /\ [][Next]_vars

\* Repeated sessions over a queue of up to RepeatItems items, each run to its
\* end, the options changed between sessions.
NextRepeat ==
    \/ \E u \in Urls : on_add_video(<<u>>) /\ Len(metas') <= RepeatItems
    \/ on_clear_list
    \/ ~downloading /\ ToggleAudioOnly
    \/ \E dir \in DirOutcomes :
          on_download_videos(dir) /\ Len(monitors') <= RepeatSessions
    \/ \E w \in Workers, ok \in BOOLEAN : WorkerStart(w, ok)
    \/ Downloading
    \/ Coordination

SpecRepeat == Init /\ [][NextRepeat]_vars

\* Sessions started and cancelled while the Metadata Provider is out of reach:
\* no item gets a title and every fallback call of a worker fails.
NextOffline ==
    \/ \E u \in Urls : on_add_video(<<u>>) /\ Len(metas') <= OfflineItems
    \/ on_clear_list
    \/ \E dir \in DirOutcomes :
          on_download_videos(dir) /\ Len(monitors') <= OfflineSessions
    \/ on_cancel_downloads
    \/ CancelJoined
    \/ \E w \in Workers : WorkerStart(w, FALSE)
    \/ Coordination

SpecOffline == Init /\ [][NextOffline]_vars

\* What the resolver threads do when the provider's answers name no
\* thumbnail.
Resolving ==
    \/ \E m \in 1..Len(metas) : MetaStart(m)
    \/ \E m \in 1..Len(metas), ok \in BOOLEAN : MetaFetched(m, ok, "none")

\* Items added and resolved, each answer with or without a thumbnail that
\* can or cannot be fetched; no session.
NextThumb ==
    \/ \E u \in Urls : on_add_video(<<u>>) /\ Len(metas') <= ThumbItems
    \/ \E m \in 1..Len(metas) : MetaStart(m)
    \/ \E m \in 1..Len(metas), ok \in BOOLEAN, thumb \in ThumbOutcomes :
          MetaFetched(m, ok, thumb)
    \/ DeliverFrameEvent

SpecThumb == Init /\ [][NextThumb]_vars

\* One session whose executor prints up to ProgressLines lines of any kind.
NextProgress ==
    \/ \E u \in Urls : on_add_video(<<u>>) /\ Len(metas') <= ProgressItems
    \/ \E dir \in DirOutcomes :
          on_download_videos(dir) /\ Len(monitors') <= ProgressSessions
    \/ \E w \in Workers, ok \in BOOLEAN : WorkerStart(w, ok)
    \/ \E w \in Workers : WorkerCheck(w)
    \/ \E w \in Workers, ok \in BOOLEAN : WorkerSpawn(w, ok)
    \/ \E w \in Workers : WorkerStore(w)
    \/ \E w \in Workers, line \in ProgressOutputs :
          workers[w].lines < ProgressLines /\ WorkerLine(w, line)
    \/ \E w \in Workers : WorkerEof(w)
    \/ \E w \in Workers, code \in {0, 1} : ProcessExits(w, code)
    \/ Coordination

SpecProgress == Init /\ [][NextProgress]_vars

\* Items added and resolved while a session is started and cancelled; the
\* session is one whose executor cannot be started (Popen raises).
NextMeta ==
    \/ \E u \in Urls : on_add_video(<<u>>) /\ Len(metas') <= MetaItems
    \/ Resolving
    \/ \E dir \in DirOutcomes :
          on_download_videos(dir) /\ Len(monitors') <= MetaSessions
    \/ on_cancel_downloads
    \/ CancelJoined
    \/ \E w \in Workers, ok \in BOOLEAN : WorkerStart(w, ok)
    \/ \E w \in Workers : WorkerCheck(w)
    \/ \E w \in Workers : WorkerSpawn(w, FALSE)
    \/ Coordination

SpecMeta == Init /\ [][NextMeta]_vars

\* A queue as it stands after its items were added in the order u1, u2, ...
\* and each item's metadata was resolved, failed to resolve, or is awaited.
QueueUrls == <<"u1", "u2", "u3", "u4">>

Resolutions == {"awaited", "ready", "error"}

ResolvedQueue(n, res) ==
    [vs |-> [i \in 1..n |->
                [id |-> i, url |-> QueueUrls[i],
                 title |-> IF res[i] = "ready" THEN ProviderTitle(QueueUrls[i])
                                               ELSE NoTitle,
                 status |-> "Pending", process |-> 0]],
     rs |-> [i \in 1..n |->
                IF res[i] = "ready"
                THEN [title |-> ProviderTitle(QueueUrls[i]),
                      duration |-> FormatDuration(ProviderDuration(QueueUrls[i])),
                      status |-> "Ready", thumb |-> DefaultThumbnail,
                      item |-> i]
                ELSE IF res[i] = "error"
                THEN [title |-> MetadataErrorTitle, duration |-> NoDuration,
                      status |-> "Error", thumb |-> DefaultThumbnail,
                      item |-> i]
                ELSE [title |-> FetchingTitle, duration |-> NoDuration,
                      status |-> "", thumb |-> DefaultThumbnail,
                      item |-> i]],
     ms |-> [i \in 1..n |->
                [index |-> i, link |-> QueueUrls[i],
                 pc |-> IF res[i] = "awaited" THEN "fetching" ELSE "done",
                 answer |-> IF res[i] = "ready" THEN "ok"
                            ELSE IF res[i] = "error" THEN "error" ELSE "none",
                 posted |-> IF res[i] = "awaited" THEN "none" ELSE res[i],
                 thumb |-> "none"]]]

InitReorder ==
    /\ \E n \in 0..MaxQueue : \E res \in [1..n -> Resolutions] :
          /\ videos = ResolvedQueue(n, res).vs
          /\ rows = ResolvedQueue(n, res).rs
          /\ metas = ResolvedQueue(n, res).ms
    /\ downloading = FALSE
    /\ cancel_requested = FALSE
    /\ download_threads = <<>>
    /\ audio_only = FALSE
    /\ uiPc = "idle"
    /\ workers = <<>>
    /\ monitors = <<>>
    /\ frameQ = <<>>
    /\ appQ = <<>>
    /\ files = {}
    /\ playlist = <<>>
    /\ sessionLog = <<>>

\* The rows the user can click: Python indices 0 .. count - 1.
RowIndices == 0..(Len(rows) - 1)

\* self.list_view.GetFirstSelected() with no row selected
NoSelection == -1

\* What the Move Up and Move Down buttons pass on: the selected row, if any.
SelectedItem == RowIndices \cup {NoSelection}

\* The queue reordered with the Move Up and Move Down buttons.
NextSelect ==
    \/ \E item \in SelectedItem : move_item_up(item)
    \/ \E item \in SelectedItem : move_item_down(item)

SpecSelect == InitReorder /\ [][NextSelect]_vars

\* File names: the nine characters of the class, a letter, and the
\* replacement character itself.
NameChars == InvalidFilenameChars \cup {"a", "_"}

Names == UNION {[1..n -> NameChars] : n \in 0..MaxName}

\* One queued item whose title, as the provider gave it, is any name.
InitNames ==
    /\ \E t \in Names \ {NoTitle} :
          /\ videos = <<[id |-> 1, url |-> "u1", title |-> t,
                         status |-> "Pending", process |-> 0]>>
          /\ rows = <<[title |-> t, duration |-> FormatDuration(ProviderDuration("u1")),
                       status |-> "Ready", thumb |-> DefaultThumbnail, item |-> 1]>>
    /\ metas = <<[index |-> 1, link |-> "u1", pc |-> "done", answer |-> "ok",
                  posted |-> "ready", thumb |-> "none"]>>
    /\ downloading = FALSE
    /\ cancel_requested = FALSE
    /\ download_threads = <<>>
    /\ audio_only = FALSE
    /\ uiPc = "idle"
    /\ workers = <<>>
    /\ monitors = <<>>
    /\ frameQ = <<>>
    /\ appQ = <<>>
    /\ files = {}
    /\ playlist = <<>>
    /\ sessionLog = <<>>

NamesUnchanged == <<videos, rows, metas, downloading, cancel_requested,
                    download_threads, audio_only, uiPc, workers, monitors,
                    frameQ, appQ, playlist, sessionLog>>

\* A file is written under the name clean_filename makes of a title.
ApplyCleanFilename(i) ==
    /\ files' = files \cup {OutputPath(clean_filename(videos[i].title), FALSE)}
    /\ UNCHANGED NamesUnchanged

\* A file is written under the name the substitution of _download_video
\* makes of a title.
ApplyInlineSub(i) ==
    /\ files' = files \cup {OutputPath(SanitizeTitle(videos[i].title), TRUE)}
    /\ UNCHANGED NamesUnchanged

NextNames ==
    \/ \E i \in 1..Len(videos) : ApplyCleanFilename(i)
    \/ \E i \in 1..Len(videos) : ApplyInlineSub(i)

SpecNames == InitNames /\ [][NextNames]_vars

\* The queue built, reordered, shortened and cleared from the buttons, with
\* or without a selected row.
NextAligned ==
    \/ \E u \in Urls : on_add_video(<<u>>) /\ Len(metas') <= AlignAdds
    \/ \E urls \in Batches : on_import_urls(urls) /\ Len(metas') <= AlignAdds
    \/ \E index \in SelectedItem : remove_selected_item(index)
    \/ \E item \in SelectedItem : move_item_up(item)
    \/ \E item \in SelectedItem : move_item_down(item)
    \/ on_clear_list

SpecAligned == Init /\ [][NextAligned]_vars

\* The queue reordered and shortened by clicks on its rows.
NextReorder ==
    \/ \E item \in RowIndices : move_item_up(item)
    \/ \E item \in RowIndices : move_item_down(item)
    \/ \E index \in RowIndices : remove_selected_item(index)

SpecReorder == InitReorder /\ [][NextReorder]_vars

\* A session of src/main.py while rows are moved and removed.
NextIndex ==
    \/ \E u \in Urls : on_add_video(<<u>>) /\ Len(metas') <= IndexItems
    \/ \E dir \in DirOutcomes :
          download_videos(dir) /\ Len(monitors') <= IndexSessions
    \/ \E w \in Workers, ok \in BOOLEAN : DvStart(w, ok)
    \/ \E w \in Workers : DvCheck(w)
    \/ \E w \in Workers, ok \in BOOLEAN : DvSpawn(w, ok)
    \/ \E w \in Workers, line \in Lines : DvLine(w, line)
    \/ \E w \in Workers : DvEof(w)
    \/ \E w \in Workers, code \in {0, 1} : DvProcessExits(w, code)
    \/ \E s \in 1..Len(monitors) : MonitorStart(s)
    \/ \E s \in 1..Len(monitors) : MonitorJoined(s)
    \/ DeliverAppCall
    \/ \E item \in RowIndices : move_item_up(item)
    \/ \E item \in RowIndices : move_item_down(item)
    \/ \E index \in RowIndices : remove_selected_item(index)

SpecIndex == Init /\ [][NextIndex]_vars

\* Items added and the list cleared while resolver threads run, no session.
NextResolve ==
    \/ \E u \in Urls : on_add_video(<<u>>) /\ Len(metas') <= ResolveAdds
    \/ on_clear_list
    \/ Resolving
    \/ DeliverFrameEvent

SpecResolve == Init /\ [][NextResolve]_vars

\* Items added before, during and after a session that can be cancelled;
\* the session is one whose executor cannot be started (Popen raises).
NextLive ==
    \/ \E u \in Urls : on_add_video(<<u>>) /\ Len(metas') <= LiveItems
    \/ Resolving
    \/ \E dir \in DirOutcomes :
          on_download_videos(dir) /\ Len(monitors') <= LiveSessions
    \/ on_cancel_downloads
    \/ CancelJoined
    \/ \E w \in Workers, ok \in BOOLEAN : WorkerStart(w, ok)
    \/ \E w \in Workers : WorkerCheck(w)
    \/ \E w \in Workers : WorkerSpawn(w, FALSE)
    \/ Coordination

\* Every started thread keeps running, the provider call returns, and the UI
\* thread keeps serving its pending queues; the user is free to do nothing.
Scheduling ==
    /\ WF_vars(Resolving)
    /\ WF_vars(\E w \in Workers, ok \in BOOLEAN : WorkerStart(w, ok))
    /\ WF_vars(\E w \in Workers : WorkerCheck(w))
    /\ WF_vars(\E w \in Workers : WorkerSpawn(w, FALSE))
    /\ WF_vars(CancelJoined)
    /\ WF_vars(\E s \in 1..Len(monitors) : MonitorStart(s))
    /\ WF_vars(\E s \in 1..Len(monitors) : MonitorJoined(s))
    /\ WF_vars(DeliverFrameEvent)
    /\ WF_vars(DeliverAppCall)

SpecLive == Init /\ [][NextLive]_vars /\ Scheduling

\* A session whose workers run up to the start of their executor while the
\* user ticks and unticks 'Audio Only (MP3)'.
NextOptions ==
    \/ \E u \in Urls : on_add_video(<<u>>) /\ Len(metas') <= OptionItems
    \/ ToggleAudioOnly
    \/ \E dir \in DirOutcomes :
          on_download_videos(dir) /\ Len(monitors') <= OptionSessions
    \/ \E w \in Workers, ok \in BOOLEAN : WorkerStart(w, ok)
    \/ \E w \in Workers : WorkerCheck(w)
    \/ \E w \in Workers, ok \in BOOLEAN : WorkerSpawn(w, ok)

SpecOptions == Init /\ [][NextOptions]_vars

\* The queue alone: Add Video, Import URLs, playlist expansion, Clear List.
NextQueue ==
    \/ \E links \in Batches : on_add_video(links) /\ Len(metas') <= QueueAdds
    \/ \E urls \in Batches : on_import_urls(urls) /\ Len(metas') <= QueueAdds
    \/ \E entries \in PlaylistEntries :
          /\ Len(metas) + Len(appQ) + Len(entries) <= QueueAdds
          /\ process_playlist(entries)
    \/ PlaylistStep
    \/ DeliverAppCall /\ Len(metas') <= QueueAdds
    \/ on_clear_list

SpecQueue == Init /\ [][NextQueue]_vars

\* ------------------------------------------------------------- properties
\* The notifications of one kind shown for session s.
LogEntries(s, kind) ==
    {i \in 1..Len(sessionLog) :
        sessionLog[i].session = s /\ sessionLog[i].kind = kind}

SessionWorkers(s) == {w \in Workers : workers[w].session = s}

\* C1: at most one download session runs at a time: all live download worker
\* threads belong to one session (so a Download request made while workers of
\* an earlier session are alive starts no worker).
C1_OneSessionAtATime ==
    \A w1, w2 \in Workers :
        Alive(w1) /\ Alive(w2) => workers[w1].session = workers[w2].session

\* C2: no two items of the queue hold the same URL, whatever Add Video,
\* Import URLs and playlist expansion are given.
C2_NoDuplicateUrls ==
    \A i, j \in 1..Len(videos) : videos[i].url = videos[j].url => i = j

\* C3: a worker whose existence check found the target file has reported
\* Already Downloaded and has returned without starting an executor process.
C3_ExistingFileSkipsExecutor ==
    \A w \in Workers :
        workers[w].sawFile =>
            /\ workers[w].proc = "none"
            /\ workers[w].pc = "done"
            /\ workers[w].final = "Already Downloaded"

\* A worker met its target file in the save directory.
C3_Witness ==
    \E w \in Workers :
        /\ workers[w].sawFile
        /\ workers[w].out \in files
        /\ workers[w].final = "Already Downloaded"

\* C4: once an item's executor has exited with code 0, a worker of a later
\* session for the same item under the same options, once past its existence
\* check, has found the file and starts no executor process.
C4_RepeatedSessionSkips ==
    \A w1, w2 \in Workers :
        /\ workers[w1].session < workers[w2].session
        /\ workers[w1].link = workers[w2].link
        /\ workers[w1].proc = "exit0"
        /\ workers[w2].out = OutputPath(workers[w1].out.base, workers[w1].audio)
        /\ workers[w2].pc \notin {"start", "check"}
        => workers[w2].proc = "none" /\ workers[w2].sawFile

\* C5: once a cancel has returned and nothing is left in the pending queues,
\* downloading is False and every item of the session shows a terminal status.
C5_CancelConvergence ==
    /\ LogEntries(SessionCount, "cancelled") # {}
    /\ uiPc = "idle"
    /\ frameQ = <<>>
    /\ appQ = <<>>
    => /\ ~downloading
       /\ \A w \in SessionWorkers(SessionCount) :
             workers[w].index <= Len(rows) =>
                 rows[workers[w].index].status \in
                     {"Downloaded", "Already Downloaded", "Failed", "Cancelled"}

\* C6: the step of on_cancel_downloads that sets downloading to False is taken
\* when no download worker thread of the session is alive.
C6_CancelBlocksUntilStopped ==
    [][uiPc = "cancel_join" /\ downloading /\ ~downloading'
       => \A w \in SessionWorkers(SessionCount) : ~Alive(w)]_vars

\* A cancel has returned in a session whose worker had a process running.
C6_Witness ==
    /\ LogEntries(SessionCount, "cancelled") # {}
    /\ \E w \in SessionWorkers(SessionCount) : workers[w].term

\* C7: a process that was running when the cancel was requested has received
\* a terminate request by the time its worker has returned.
C7_RunningProcessTerminated ==
    \A w \in Workers :
        workers[w].atCancel /\ ~Alive(w) => workers[w].term

\* C8: a worker whose process was terminated by the cancel reports Cancelled,
\* not Failed.
C8_CancelledNotFailed ==
    \A w \in Workers :
        workers[w].term /\ ~Alive(w) => workers[w].final = "Cancelled"

\* C9: the summary of a session that was not cancelled counts as successful
\* the session's items that ended Downloaded or Already Downloaded, as failed
\* those that ended Failed, and the two counts add up to the items the
\* session started with.
C9_SummaryCounts ==
    \A i \in 1..Len(sessionLog) :
        LET e == sessionLog[i]
            ended(S) == {w \in SessionWorkers(e.session) : workers[w].final \in S}
        IN e.kind = "summary" /\ LogEntries(e.session, "cancelled") = {}
           => /\ e.success = Cardinality(ended({"Downloaded", "Already Downloaded"}))
              /\ e.failed = Cardinality(ended({"Failed"}))
              /\ e.success + e.failed = Cardinality(SessionWorkers(e.session))

\* A summary counted while the only item was shown Already Downloaded.
C9_Witness ==
    \E i \in 1..Len(sessionLog) :
        /\ sessionLog[i].kind = "summary"
        /\ sessionLog[i].statuses = <<"Already Downloaded">>
        /\ sessionLog[i].success = 0

\* C10: a session shows at most one session-level notification: the summary
\* or the cancelled notification, never both and never the summary twice.
C10_OneSessionEvent ==
    \A s \in 1..SessionCount :
        Cardinality(LogEntries(s, "summary") \cup LogEntries(s, "cancelled")) <= 1

\* C11: of two resolver threads, one whose provider call failed and one
\* whose provider call succeeded, the second has posted the success event
\* (its item becomes Ready) and the first the failure event.
C11_MetadataIsolation ==
    \A a, b \in 1..Len(metas) :
        /\ a # b
        /\ metas[a].answer = "error"
        /\ metas[b].answer = "ok"
        => metas[b].posted = "ready" /\ metas[a].posted = "error"

\* C16: a resolver thread and a download worker are never both running for
\* the same item.
C16_OneLifecyclePerItem ==
    \A m \in 1..Len(metas), w \in Workers :
        /\ metas[m].index = workers[w].index
        /\ metas[m].link = workers[w].link
        => ~(metas[m].pc # "done" /\ Alive(w))

\* C12: the step in which one worker fails changes no other worker, neither
\* session flag, no row, and queues one failure event, for that worker's item.
C12_FailureIsolated ==
    [][\A w \in DOMAIN workers :
          workers[w].final # "Failed" /\ workers'[w].final = "Failed"
          => /\ \A v \in DOMAIN workers \ {w} : workers'[v] = workers[v]
             /\ UNCHANGED <<downloading, cancel_requested, download_threads,
                            rows, monitors>>
             /\ frameQ' = Append(frameQ, CompleteEvent(workers[w].index, FALSE))]_vars

\* One item of a session is shown Failed, another item of it Downloaded.
C12_Witness ==
    \E w, v \in Workers :
        /\ workers[w].session = workers[v].session
        /\ workers[w].final = "Failed"
        /\ workers[v].final = "Downloaded"
        /\ workers[v].index \in 1..Len(rows)
        /\ workers[w].index \in 1..Len(rows)
        /\ rows[workers[w].index].status = "Failed"
        /\ rows[workers[v].index].status = "Downloaded"

\* What a call of on_download_videos must leave alone when it is rejected.
SessionState == <<workers, monitors, downloading, cancel_requested,
                  download_threads, rows>>

\* C13: a call of on_download_videos made while a session is running, with
\* an empty queue, or when the save directory cannot be created starts no
\* worker and no monitor thread and changes neither flag, nor the thread
\* list, nor any item status.
C13_RejectionLeavesNoState ==
    /\ downloading \/ Len(videos) = 0
       => \A dir \in DirOutcomes :
             ~ENABLED (on_download_videos(dir) /\ SessionState' # SessionState)
    /\ ~ENABLED (on_download_videos("fails") /\ SessionState' # SessionState)

\* Download can be pressed while a session runs with a worker alive.
C13_Witness ==
    /\ uiPc = "idle"
    /\ downloading
    /\ \E w \in Workers : Alive(w)

\* C14: a step that changes the order of a queue of the same length swaps
\* two adjacent items, and the title, duration and status of the two rows
\* are swapped with them; every other item and row stays where it was.
C14_ReorderCorrect ==
    [][(videos' # videos \/ rows' # rows) /\ Len(videos') = Len(videos)
       => \E p \in 1..(Len(videos) - 1) :
             /\ videos' = [videos EXCEPT ![p] = videos[p + 1], ![p + 1] = videos[p]]
             /\ rows' = [rows EXCEPT ![p] = rows[p + 1], ![p + 1] = rows[p]]]_vars

\* A queue of three after moves: the item added last is first, and each row
\* still shows what was shown for its item.
C14_Witness ==
    /\ Len(videos) = 3
    /\ videos[1].url = "u3" /\ videos[2].url = "u1" /\ videos[3].url = "u2"
    /\ rows[1].status = "Error"
    /\ rows[2].status = "Ready" /\ rows[2].duration = <<3, 5>>
    /\ rows[3].status = "Ready" /\ rows[3].duration = <<60, 0>>

\* C15: once every worker has returned and every queued callback has run,
\* the row of each item still in the queue shows the terminal status the
\* worker started for that item reported.
C15_UpdatesReachOwnItem ==
    (\A w \in Workers : ~Alive(w)) /\ appQ = <<>>
    => \A w \in Workers, p \in 1..Len(videos) :
          videos[p].id = workers[w].item => rows[p].status = workers[w].final

\* C17: while a download worker of a session is alive no step empties the
\* queue: Clear List removes nothing.
C17_ClearBlockedWhileWorkersAlive ==
    [][(\E w \in Workers : Alive(w))
       => ~(videos # <<>> /\ videos' = <<>> /\ rows' = <<>>)]_vars

\* C18: of two workers of one session whose output paths are the same, at
\* most one has started an executor process.
C18_OneExecutorPerPath ==
    \A w, v \in Workers :
        /\ w # v
        /\ workers[w].session = workers[v].session
        /\ workers[w].link # workers[v].link
        /\ workers[w].out = workers[v].out
        => ~(workers[w].proc # "none" /\ workers[v].proc # "none")

\* C19: when every thread has returned and nothing is left in the pending
\* queues, downloading is False and every item a worker was started for
\* shows Downloaded, Already Downloaded, Failed or Cancelled.
C19_EveryItemEndsTerminal ==
    /\ \A w \in Workers : ~Alive(w)
    /\ \A s \in 1..Len(monitors) : monitors[s].pc = "done"
    /\ \A m \in 1..Len(metas) : metas[m].pc = "done"
    /\ frameQ = <<>>
    /\ appQ = <<>>
    /\ uiPc = "idle"
    => /\ ~downloading
       /\ \A w \in Workers :
             /\ workers[w].index <= Len(videos)
             /\ videos[workers[w].index].id = workers[w].item
             => rows[workers[w].index].status \in
                   {"Downloaded", "Already Downloaded", "Failed", "Cancelled"}

\* C20: an item holds a process handle only while its download runs: the
\* worker that stored the handle has not yet reported a terminal status.
C20_HandleOnlyWhileDownloading ==
    \A i \in 1..Len(videos) :
        videos[i].process # 0 => Alive(videos[i].process)

\* C21: the loop of on_add_video appends, in input order, one item, one row and
\* one resolver thread for each line that is a valid link, is not in the queue
\* and did not occur earlier in the input, and nothing else: a line that is
\* invalid or already queued changes no item, row or resolver thread and
\* does not keep the other lines from being added.
C21_RejectedAddsChangeNothing ==
    \A links \in Batches :
        LET q == AddLinks(QueueState, links)
            s == [k \in 1..Len(links) |-> Strip(links[k])]
            ok(k) == /\ IsValidLink(s[k])
                     /\ ~IsUrlInQueue(videos, s[k])
                     /\ \A j \in 1..(k - 1) : s[j] # s[k]
            acc == SelectSeq([k \in 1..Len(links) |-> k], ok)
            n == Len(videos)
        IN /\ Len(q.vs) = n + Len(acc)
           /\ Len(q.rs) = Len(rows) + Len(acc)
           /\ Len(q.ms) = Len(metas) + Len(acc)
           /\ SubSeq(q.vs, 1, n) = videos
           /\ SubSeq(q.rs, 1, Len(rows)) = rows
           /\ SubSeq(q.ms, 1, Len(metas)) = metas
           /\ \A j \in 1..Len(acc) :
                 /\ q.vs[n + j].url = s[acc[j]]
                 /\ q.ms[Len(metas) + j].link = s[acc[j]]
                 /\ q.ms[Len(metas) + j].pc = "start"

\* u1 is queued, and an input that names u1 again, an invalid link and u2
\* can be entered: it adds one item.
C21_Witness ==
    /\ IsUrlInQueue(videos, "u1")
    /\ ~IsUrlInQueue(videos, "u2")
    /\ \E links \in Batches :
          /\ \E k \in 1..Len(links) : links[k] \in {"u1", "bad"}
          /\ \E k \in 1..Len(links) : links[k] = "u2"
          /\ ENABLED (on_add_video(links) /\ Len(videos') = Len(videos) + 1)

\* C22: the result of a metadata resolution is stored on and shown for the
\* item it was started for: an item that has a title has the title the
\* provider gives for its own URL, and its row shows no other item's title.
C22_ResultOnOwnItem ==
    \A i \in 1..Len(videos) :
        /\ videos[i].title \in {NoTitle, ProviderTitle(videos[i].url)}
        /\ rows[i].title \in {FetchingTitle, MetadataErrorTitle,
                              ProviderTitle(videos[i].url)}

\* C23: every added item eventually shows Ready or the metadata-error
\* status: the k-th item added, once added, leads to its row showing one of
\* the two (no row moves in this specification: item k is at position k).
C23_ItemLeavesFetching ==
    \A k \in 1..LiveItems :
        (Len(metas) >= k) ~> (Len(rows) >= k /\ rows[k].status \in {"Ready", "Error"})

\* C24: once a row shows Downloaded, Already Downloaded, Failed or Cancelled,
\* the handling of a metadata event or of a progress event leaves its status
\* as it is.
C24_TerminalStatusStays ==
    [][/\ frameQ # <<>>
       /\ frameQ' = Tail(frameQ)
       /\ Head(frameQ).type \in {"metadata", "progress"}
       => \A i \in 1..Len(rows) :
             rows[i].status \in {"Downloaded", "Already Downloaded", "Failed",
                                 "Cancelled"}
             => rows'[i].status = rows[i].status]_vars

\* C25: no executor process is started while a cancel is requested: the step
\* in which a worker's process starts is taken with cancel_requested False.
C25_NoExecutorAfterCancel ==
    [][\A w \in DOMAIN workers :
          workers[w].proc = "none" /\ workers'[w].proc = "running"
          => ~cancel_requested]_vars

\* C26: when _on_downloads_complete counts the statuses, no row shows
\* Preparing or a download percentage: every worker's terminal status has
\* been applied before the summary is computed.
C26_SummaryAfterTerminal ==
    \A i \in 1..Len(sessionLog) :
        sessionLog[i].kind = "summary"
        => \A j \in 1..Len(sessionLog[i].statuses) :
              sessionLog[i].statuses[j] \notin {"Preparing..."} \cup Lines

\* C27: a step that starts download workers starts one per item of the queue
\* at that moment, in queue order, each for its item's index and URL, and
\* makes them the session's thread list; a step that adds an item to the
\* queue starts no download worker and leaves the thread list as it is.
C27_SessionDownloadsSnapshot ==
    [][/\ Len(workers') > Len(workers)
          => LET n == Len(workers)
             IN /\ Len(workers') = n + Len(videos)
                /\ \A i \in 1..Len(videos) :
                      /\ workers'[n + i].index = i
                      /\ workers'[n + i].link = videos[i].url
                      /\ workers'[n + i].item = videos[i].id
                      /\ workers'[n + i].session = SessionCount + 1
                /\ download_threads' = [i \in 1..Len(videos) |-> n + i]
       /\ Len(videos') > Len(videos)
          => /\ Len(workers') = Len(workers)
             /\ download_threads' = download_threads]_vars

\* A session runs with a worker alive for the item it started with, and the
\* queue holds a second item, added since, that no worker was started for.
C27_Witness ==
    /\ downloading
    /\ Len(workers) = 1
    /\ Alive(1)
    /\ Len(videos) = 2
    /\ videos[1].id = workers[1].item
    /\ videos[2].id # workers[1].item

\* C28: the audio-only option is the same for every job of a session and
\* within one job: of the workers of one session that have started an
\* executor, all gave it the same audio-only flag, and each chose the
\* extension of its checked path by that same flag.
C28_OptionsFixedPerSession ==
    \A w, v \in Workers :
        /\ workers[w].session = workers[v].session
        /\ workers[w].proc # "none"
        /\ workers[v].proc # "none"
        => /\ workers[w].audio = workers[v].audio
           /\ workers[w].audio = (workers[w].out.ext = ".mp3")

\* C29: move_item_up and move_item_down, for every index they can be given
\* (a row's index or -1 for no selection), leave the order of the queue as
\* it is or swap two neighbours.
C29_MoveSwapsNeighbours ==
    [][\/ videos' = videos
       \/ \E p \in 1..(Len(videos) - 1) : videos' = SwapVideos(videos, p)]_vars

\* C30: the cancel flag is set only while a session runs: whenever the UI
\* thread is between two handlers, cancel_requested implies downloading.
C30_CancelFlagOnlyInSession ==
    uiPc = "idle" /\ cancel_requested => downloading

\* C31: on_cancel_downloads called while no session is running changes
\* nothing: neither flag, nor the queue, nor a status, nor a process handle,
\* and no process gets a terminate request.
C31_CancelWhenIdleIsNoOp ==
    ~downloading => ~ENABLED (on_cancel_downloads /\ vars' # vars)

\* Cancel can be pressed with no session running while an item still holds
\* the process handle of an ended session.
C31_Witness ==
    /\ ~downloading
    /\ uiPc = "idle"
    /\ \E i \in 1..Len(videos) : videos[i].process # 0

\* The event resolver m posted has been handled.
MetadataHandled(m) ==
    \A k \in 1..Len(frameQ) :
        ~(frameQ[k].type = "metadata" /\ frameQ[k].index = metas[m].index)

\* C32: a resolver whose provider call succeeded and whose thumbnail could
\* not be fetched has posted the success event, and once that event is
\* handled the item's row shows its title, its duration and Ready, with the
\* default image.
C32_ThumbnailFailureNotFatal ==
    \A m \in 1..Len(metas) :
        metas[m].answer = "ok" /\ metas[m].thumb = "fails" /\ metas[m].pc = "done"
        => /\ metas[m].posted = "ready"
           /\ videos[m].title = ProviderTitle(metas[m].link)
           /\ MetadataHandled(m)
              => /\ rows[m].title = ProviderTitle(metas[m].link)
                 /\ rows[m].duration =
                        FormatDuration(ProviderDuration(metas[m].link))
                 /\ rows[m].status = "Ready"
                 /\ rows[m].thumb = DefaultThumbnail

\* An item whose thumbnail download failed is shown Ready with the default
\* image.
C32_Witness ==
    \E m \in 1..Len(metas) :
        /\ metas[m].thumb = "fails"
        /\ MetadataHandled(m)
        /\ rows[m].status = "Ready"
        /\ rows[m].thumb = DefaultThumbnail

\* No frame event and no callback for the row at index is pending.
NothingPendingFor(index) ==
    /\ \A k \in 1..Len(frameQ) : frameQ[k].index # index
    /\ \A k \in 1..Len(appQ) : appQ[k].index # index

\* C33: only an output line that contains a percentage produces a progress
\* event and a status change, so every progress event posted carries a
\* number followed by the sign; and once everything posted for an item is
\* handled, the status shown for it while its worker reads output is the
\* value of the last line that was parsed, whatever the earlier values were.
C33_ProgressIsLastPercentage ==
    /\ \A k \in 1..Len(frameQ) :
           frameQ[k].type = "progress" => IsFloat(ProgressStr(frameQ[k].text))
    /\ \A w \in Workers :
           /\ workers[w].pc = "loop"
           /\ workers[w].progress # ""
           /\ workers[w].index \in 1..Len(rows)
           /\ NothingPendingFor(workers[w].index)
           => rows[workers[w].index].status = workers[w].progress

\* C34: every progress value the worker posts is a percentage between 0 and
\* 100: the number handed to the gauge for a posted progress text that reads
\* as a number is in 0..100.
C34_ProgressWithinRange ==
    \A k \in 1..Len(frameQ) :
        frameQ[k].type = "progress" /\ IsFloat(ProgressStr(frameQ[k].text))
        => GaugeValue(frameQ[k].text) \in 0..100

\* C35: the item list and the rows stay aligned: after every add, import,
\* remove, move and clear there are as many rows as items, the row at each
\* position is the row of the item at that position, and items that were
\* added stand at the tail, after the items that were there, with the status
\* Pending.
C35_RowsAlignedWithItems ==
    [][/\ Len(rows') = Len(videos')
       /\ \A i \in 1..Len(rows') :
              i <= Len(videos') /\ rows'[i].item = videos'[i].id
       /\ Len(videos') > Len(videos)
          => /\ SubSeq(videos', 1, Len(videos)) = videos
             /\ \A i \in (Len(videos) + 1)..Len(videos') :
                    videos'[i].status = "Pending"]_vars

====
